---- MODULE Spec2Model ----
(***************************************************************************)
(* minigrep (src/minigrep/src/main.rs; lib.rs holds the same run and       *)
(* Config::new, made public).  One execution of the binary:                *)
(*   env::args().collect()  ->  Config::new  ->  two println!  ->  run     *)
(* Strings given on the command line are atomic values; a file's contents  *)
(* is a sequence of characters; standard output is the sequence of pieces  *)
(* written to it, a line ending being the piece "\n".                      *)
(***************************************************************************)
EXTENDS Integers, Sequences, FiniteSets, TLC

\* ---------------------------------------------------------------- bounds
MaxArgs == 4
MaxLen == 2

\* args.len() < 3 (main.rs:46, lib.rs:23)
MinArgs == 3

\* ------------------------------------------------------------ value sets
NL == "\n"
ArgStrings == {"a", "poem.txt", "notes.txt"}
InvalidUnicode == "<not-unicode>"
OsStrings == ArgStrings \cup {InvalidUnicode}
FileNames == {"poem.txt", "notes.txt"}
Chars == {"a", NL}

SeqsUpTo(S, n) == UNION {[1..k -> S] : k \in 0..n}

\* What the file system holds under a name: nothing, bytes that are not
\* UTF-8, or text.
NotFound == [kind |-> "NotFound", text |-> <<>>]
InvalidData == [kind |-> "InvalidData", text |-> <<>>]
TextFile(t) == [kind |-> "Text", text |-> t]
FileStates == {NotFound, InvalidData} \cup {TextFile(t) : t \in SeqsUpTo(Chars, MaxLen)}

\* osArgs     the process's argument vector, as the OS hands it over
\* fs         the file system: what each name holds
\* pc         where main is
\* args       main's Vec<String> (main.rs:11)
\* newResult  what Config::new returned (main.rs:14)
\* config     main's Config (main.rs:14), moved into run (main.rs:25)
\* contents   run's local String (main.rs:30)
\* runResult  what run returned
\* stdout     everything written to standard output
\* runOut     the part of stdout written by run
\* exitStatus the process's exit status, -1 while it runs
\* panicked   whether the process panicked
\* reads      the names handed to fs::read_to_string, in order
VARIABLES osArgs, fs, pc, args, newResult, config, contents, runResult,
          stdout, runOut, exitStatus, panicked, reads

vars == <<osArgs, fs, pc, args, newResult, config, contents, runResult,
          stdout, runOut, exitStatus, panicked, reads>>

NoConfig == [query |-> "", filename |-> ""]
NoResult == [tag |-> "None", err |-> ""]
NotCalled == [tag |-> "None", err |-> "", config |-> NoConfig]

\* ------------------------------------------------------- pure functions

\* println!: the formatted pieces, then a line ending.
Println(pieces) == pieces \o <<NL>>

\* The lines of a text, as str::lines gives them: split at "\n", a final
\* line without "\n" kept, no empty line after a final "\n".
RECURSIVE SplitLines(_, _)
SplitLines(t, cur) ==
  IF t = <<>> THEN (IF cur = <<>> THEN <<>> ELSE <<cur>>)
  ELSE IF Head(t) = NL THEN <<cur>> \o SplitLines(Tail(t), <<>>)
  ELSE SplitLines(Tail(t), Append(cur, Head(t)))

Lines(t) == SplitLines(t, <<>>)

\* args[i] of a Rust slice (0-based): out of bounds is a panic.
IndexPanic == "<index out of bounds>"
Index(a, i) == IF i + 1 \in DOMAIN a THEN a[i + 1] ELSE IndexPanic

ConfigNew_lenLe3(a) ==
  IF Len(a) <= MinArgs
  THEN [tag |-> "Err", err |-> "not enough arguments", config |-> NoConfig]
  ELSE [tag |-> "Ok", err |-> "",
        config |-> [query |-> Index(a, 1), filename |-> Index(a, 2)]]

ConfigNew_lenLt2(a) ==
  IF Len(a) < MinArgs - 1
  THEN [tag |-> "Err", err |-> "not enough arguments", config |-> NoConfig]
  ELSE LET query == Index(a, 1)
           filename == Index(a, 2)
       IN IF IndexPanic \in {query, filename}
          THEN [tag |-> "Panic", err |-> "", config |-> NoConfig]
          ELSE [tag |-> "Ok", err |-> "",
                config |-> [query |-> query, filename |-> filename]]

ConfigNew_swapped(a) ==
  IF Len(a) < MinArgs
  THEN [tag |-> "Err", err |-> "not enough arguments", config |-> NoConfig]
  ELSE [tag |-> "Ok", err |-> "",
        config |-> [query |-> Index(a, 2), filename |-> Index(a, 1)]]

\* Config::new
ConfigNew(a) ==
  IF Len(a) < MinArgs
  THEN [tag |-> "Err", err |-> "not enough arguments", config |-> NoConfig]
  ELSE LET query == Index(a, 1)
           filename == Index(a, 2)
       IN IF IndexPanic \in {query, filename}
          THEN [tag |-> "Panic", err |-> "", config |-> NoConfig]
          ELSE [tag |-> "Ok", err |-> "",
                config |-> [query |-> query, filename |-> filename]]

\* What the file system holds under a name.
FileAt(fsys, name) == IF name \in DOMAIN fsys THEN fsys[name] ELSE NotFound

RECURSIVE FirstLine(_)
FirstLine(t) ==
  IF t = <<>> THEN <<>>
  ELSE IF Head(t) = NL THEN <<NL>>
  ELSE <<Head(t)>> \o FirstLine(Tail(t))

ReadToString_firstLine(fsys, name) ==
  LET f == FileAt(fsys, name)
  IN IF f.kind = "Text"
     THEN [tag |-> "Ok", err |-> "", text |-> FirstLine(f.text)]
     ELSE [tag |-> "Err", err |-> f.kind, text |-> <<>>]

ReadToString_orDefault(fsys, name) ==
  [tag |-> "Ok", err |-> "", text |-> FileAt(fsys, name).text]

\* fs::read_to_string
ReadToString(fsys, name) ==
  LET f == FileAt(fsys, name)
  IN IF f.kind = "Text"
     THEN [tag |-> "Ok", err |-> "", text |-> f.text]
     ELSE [tag |-> "Err", err |-> f.kind, text |-> <<>>]

\* A line contains a one-character query.
Contains(line, q) == \E i \in DOMAIN line : line[i] = q

RECURSIVE Matching(_, _)
Matching(ls, q) ==
  IF ls = <<>> THEN <<>>
  ELSE (IF Contains(Head(ls), q) THEN Println(Head(ls)) ELSE <<>>)
       \o Matching(Tail(ls), q)

ParseErrorLine_noDetail(err) == Println(<<"problem parsing arguments">>)

\* main.rs:15  println!("problem parsing arguments: {}", err)
ParseErrorLine(err) == Println(<<"problem parsing arguments: ", err>>)

RunLine_grep(cfg, text) ==
  Println(<<"With text: ", NL>> \o Matching(Lines(text), cfg.query))

\* main.rs:32  println!("With text: \n{}", contents), in run(config)
RunLine(cfg, text) == Println(<<"With text: ", NL>> \o text)

\* ------------------------------------------------------------ behaviour

Init ==
  /\ osArgs \in SeqsUpTo(OsStrings, MaxArgs)
  /\ fs \in [FileNames -> FileStates]
  /\ pc = "start"
  /\ args = <<>>
  /\ newResult = NotCalled
  /\ config = NoConfig
  /\ contents = <<>>
  /\ runResult = NoResult
  /\ stdout = <<>>
  /\ runOut = <<>>
  /\ exitStatus = -1
  /\ panicked = FALSE
  /\ reads = <<>>

\* main.rs:11  env::args().collect()
MainCollectArgs ==
  /\ pc = "start"
  /\ \A i \in DOMAIN osArgs : osArgs[i] # InvalidUnicode
  /\ args' = osArgs
  /\ pc' = "config"
  /\ UNCHANGED <<osArgs, fs, newResult, config, contents, runResult, stdout,
                 runOut, exitStatus, panicked, reads>>

\* main.rs:7,11  env::args panics on an argument that is not valid Unicode.
MainArgsPanic ==
  /\ pc = "start"
  /\ \E i \in DOMAIN osArgs : osArgs[i] = InvalidUnicode
  /\ panicked' = TRUE
  /\ exitStatus' = 101
  /\ pc' = "exited"
  /\ UNCHANGED <<osArgs, fs, args, newResult, config, contents, runResult,
                 stdout, runOut, reads>>

\* main.rs:14-18  Config::new(&args).unwrap_or_else(|err| { println!; exit(1) })
MainConfigNew ==
  /\ pc = "config"
  /\ LET r == ConfigNew(args)
     IN /\ newResult' = r
        /\ CASE r.tag = "Ok" ->
                  /\ config' = r.config
                  /\ pc' = "announce"
                  /\ UNCHANGED <<stdout, exitStatus, panicked>>
             [] r.tag = "Err" ->
                  /\ stdout' = stdout \o ParseErrorLine(r.err)
                  /\ exitStatus' = 1
                  /\ pc' = "exited"
                  /\ UNCHANGED <<config, panicked>>
             [] OTHER ->
                  /\ panicked' = TRUE
                  /\ exitStatus' = 101
                  /\ pc' = "exited"
                  /\ UNCHANGED <<config, stdout>>
  /\ UNCHANGED <<osArgs, fs, args, contents, runResult, runOut, reads>>

\* main.rs:20-21
MainAnnounce ==
  /\ pc = "announce"
  /\ stdout' = stdout \o Println(<<"Searching for ", config.query>>)
                      \o Println(<<"In file ", config.filename>>)
  /\ pc' = "run"
  /\ UNCHANGED <<osArgs, fs, args, newResult, config, contents, runResult,
                 runOut, exitStatus, panicked, reads>>

\* main.rs:30  let contents = fs::read_to_string(config.filename)?;
RunRead ==
  /\ pc = "run"
  /\ LET r == ReadToString(fs, config.filename)
     IN IF r.tag = "Ok"
        THEN /\ contents' = r.text
             /\ pc' = "run_print"
             /\ UNCHANGED runResult
        ELSE /\ runResult' = [tag |-> "Err", err |-> r.err]
             /\ pc' = "returned"
             /\ UNCHANGED contents
  /\ reads' = Append(reads, config.filename)
  /\ UNCHANGED <<osArgs, fs, args, newResult, config, stdout, runOut,
                 exitStatus, panicked>>

\* main.rs:32-36  println!("With text: \n{}", contents); Ok(())
\* contents is dropped as run returns.
RunPrint ==
  /\ pc = "run_print"
  /\ stdout' = stdout \o RunLine(config, contents)
  /\ runOut' = runOut \o RunLine(config, contents)
  /\ runResult' = [tag |-> "Ok", err |-> ""]
  /\ contents' = <<>>
  /\ pc' = "returned"
  /\ UNCHANGED <<osArgs, fs, args, newResult, config, exitStatus, panicked,
                 reads>>

\* main.rs:25-26  run(config); the Result is dropped and main returns.
MainReturn ==
  /\ pc = "returned"
  /\ exitStatus' = 0
  /\ pc' = "exited"
  /\ UNCHANGED <<osArgs, fs, args, newResult, config, contents, runResult,
                 stdout, runOut, panicked, reads>>

Next ==
  \/ MainCollectArgs
  \/ MainArgsPanic
  \/ MainConfigNew
  \/ MainAnnounce
  \/ RunRead
  \/ RunPrint
  \/ MainReturn

Spec == Init /\ [][Next]_vars

\* ---------------------------------------------------------------- claims

\* The lines of standard output that report an error: the only error report
\* the program writes is the one of main.rs:15.
DiagnosticLines(out) ==
  {i \in DOMAIN Lines(out) :
     Lines(out)[i] # <<>> /\ Lines(out)[i][1] = "problem parsing arguments: "}

Exited == pc = "exited" /\ ~panicked

\* C1: a finished run in which Config::new or run returned Err has a
\* non-zero exit status and exactly one diagnostic line on its output; a
\* finished run with no error has exit status 0.
C1_ErrorExitStatus ==
  Exited =>
    IF newResult.tag = "Err" \/ runResult.tag = "Err"
    THEN exitStatus # 0 /\ Cardinality(DiagnosticLines(stdout)) = 1
    ELSE exitStatus = 0

\* C2: Config::new returns Err("not enough arguments") exactly when the
\* slice has fewer than 3 elements, and then no Config is produced; for a
\* slice of 3 or more elements it returns Ok.
C2_ErrIffFewerThanThree ==
  newResult.tag # "None" =>
    /\ newResult.tag = "Err" <=> Len(args) < 3
    /\ newResult.tag = "Err" =>
         newResult.err = "not enough arguments" /\ config = NoConfig
    /\ Len(args) >= 3 => newResult.tag = "Ok" /\ config = newResult.config

C2_Witness == newResult.tag = "Err" /\ Len(args) = 2

\* C3: for a slice of at least 3 elements the Config that Config::new
\* returns has query = args[1] and filename = args[2] (0-based), whatever
\* args[0] and the elements from index 3 on are.
C3_QueryAndFilename ==
  (newResult.tag # "None" /\ Len(args) >= 3) =>
    /\ newResult.tag = "Ok"
    /\ config.query = args[2]
    /\ config.filename = args[3]

C3_Witness ==
  /\ newResult.tag = "Ok"
  /\ Len(args) = 4
  /\ args[1] # args[2]
  /\ args[2] # args[3]
  /\ args[4] \notin {args[2], args[3]}

\* C4: when run succeeds, what it has printed is "With text: " on a line
\* and then the whole, unmodified contents of the file named by
\* config.filename; the output is a function of that file alone, so
\* config.query has no part in it.
C4_PrintsWholeFile ==
  runResult.tag = "Ok" =>
    /\ FileAt(fs, config.filename).kind = "Text"
    /\ runOut = <<"With text: ", NL>> \o FileAt(fs, config.filename).text \o <<NL>>

\* run succeeded on a file with a line that holds the query and a line that
\* does not: a search would have dropped the second.
C4_Witness ==
  /\ runResult.tag = "Ok"
  /\ \E i, j \in DOMAIN Lines(FileAt(fs, config.filename).text) :
        /\ Contains(Lines(FileAt(fs, config.filename).text)[i], config.query)
        /\ ~Contains(Lines(FileAt(fs, config.filename).text)[j], config.query)

C6_NeverPanics == ~panicked

\* C6, amended: the program panics only in env::args, on an argument that
\* is not valid Unicode, before Config::new is called.  On every argument
\* vector it has collected, Config::new never indexes out of bounds; on
\* every file it cannot read, run returns Err; and the only non-zero exit
\* besides that panic is process::exit(1) after an argument-parsing error.
C6_PanicsOnlyOnInvalidUnicode ==
  /\ panicked =>
       /\ \E i \in DOMAIN osArgs : osArgs[i] = InvalidUnicode
       /\ newResult = NotCalled
  /\ newResult.tag # "Panic"
  /\ (reads # <<>> /\ FileAt(fs, config.filename).kind # "Text") =>
       runResult.tag = "Err"
  /\ (pc = "exited" /\ ~panicked /\ exitStatus # 0) =>
       exitStatus = 1 /\ newResult.tag = "Err"

\* run was handed a file that is not valid UTF-8 and the process ended
\* without a panic.
C6_Witness ==
  /\ pc = "exited"
  /\ ~panicked
  /\ runResult.tag = "Err"
  /\ FileAt(fs, config.filename).kind = "InvalidData"

\* C7: when Config::new fails, the output is the one line "problem parsing
\* arguments: not enough arguments", the exit status is 1, and neither
\* "Searching for", "In file" nor anything of run is printed: run is not
\* called and no file is read.
C7_ParseFailure ==
  newResult.tag = "Err" =>
    /\ pc = "exited"
    /\ stdout = <<"problem parsing arguments: ", "not enough arguments", NL>>
    /\ exitStatus = 1
    /\ runResult = NoResult
    /\ runOut = <<>>
    /\ reads = <<>>

C7_Witness == newResult.tag = "Err" /\ pc = "exited" /\ Len(args) = 1

\* The number of pieces of out that are p.
Count(out, p) == Cardinality({i \in DOMAIN out : out[i] = p})

\* C8: if the read fails, run returns Err with the read's error and has
\* printed nothing; if it succeeds, run has printed exactly once when it
\* returns Ok; run never both prints and returns Err.
C8_AllOrNothing ==
  /\ runResult.tag = "Err" =>
       /\ runOut = <<>>
       /\ FileAt(fs, config.filename).kind # "Text"
       /\ runResult.err = FileAt(fs, config.filename).kind
  /\ runResult.tag = "Ok" =>
       /\ FileAt(fs, config.filename).kind = "Text"
       /\ Count(runOut, "With text: ") = 1
  /\ runOut # <<>> => runResult.tag = "Ok"
  /\ (reads # <<>> /\ FileAt(fs, config.filename).kind # "Text") =>
       runResult.tag = "Err"

C8_Witness ==
  /\ runResult.tag = "Err"
  /\ runResult.err = "NotFound"
  /\ stdout # <<>>

====
